---- MODULE Spec2Model ----
(***************************************************************************)
(* Model of cows.cpp: the "cows in the maze" puzzle solver.                *)
(*   - State / Transition value classes                                    *)
(*   - Searcher::ComputeIndex (dense index of a state)                     *)
(*   - Searcher::DetermineNextStates (the sixteen box rules)               *)
(*   - Searcher::EnumerateTransitions (table construction)                 *)
(*   - Searcher::StartTraversal / RecTraverse (depth-first traversal)      *)
(* The two-element arrays of the source (indexed by pencil) are tuples     *)
(* here, so pencil p of the source is component p+1; the large arrays      *)
(* (space, the stack tracer) are functions on 0..n-1.                      *)
(***************************************************************************)
EXTENDS Integers, Sequences, FiniteSets, TLC

\* ------------------------------------------------------------------------
\* Program constants
\* ------------------------------------------------------------------------

TRACE_ENTRIES == 300

GOAL_MAZEPOINT == 100

ILLEGAL_MAZEPOINT == 101

START_PENCIL_0 == 1

START_PENCIL_1 == 7

PATH_YES == 0

PATH_NO == 1

PATH_LUGNUT == 2

PATH_NONE == 3

MAZEPOINT_COUNT == 16

MAZEPOINT == <<1, 2, 5, 7, 9, 15, 25, 26, 35, 40, 50, 55, 60, 61, 65, 75>>

DUMP_MAX_DEPTH == 37

\* The two pencils.
Pencils == {0, 1}

\* The maze points a pencil can legally rest on.
MazePoints == {MAZEPOINT[i] : i \in 1..MAZEPOINT_COUNT}

\* ------------------------------------------------------------------------
\* class State
\* ------------------------------------------------------------------------

\* The loop of GetMazePointIndex: the first i with MAZEPOINT[i]==m, or
\* MAZEPOINT_COUNT when there is none (where the source aborts).
GetMazePointIndex(m) ==
  IF \E i \in 0..(MAZEPOINT_COUNT - 1) : MAZEPOINT[i + 1] = m
    THEN CHOOSE i \in 0..(MAZEPOINT_COUNT - 1) :
           /\ MAZEPOINT[i + 1] = m
           /\ \A j \in 0..(i - 1) : MAZEPOINT[j + 1] # m
    ELSE MAZEPOINT_COUNT

\* GetMazePointIndex(m) ends in abort().
IndexAborts(m) == GetMazePointIndex(m) = MAZEPOINT_COUNT

\* State::State(void)
NewState ==
  [pencil |-> <<ILLEGAL_MAZEPOINT, ILLEGAL_MAZEPOINT>>,
   pencilMoved |-> <<0, 0>>,
   rule60active |-> 0]

\* State::Pencil: the stored value is an index into MAZEPOINT, except for
\* the two special codes, which are stored as they are.
Pencil(s, p) ==
  IF s.pencil[p + 1] = ILLEGAL_MAZEPOINT \/ s.pencil[p + 1] = GOAL_MAZEPOINT
    THEN s.pencil[p + 1]
    ELSE MAZEPOINT[s.pencil[p + 1] + 1]

MovementP(s, p) == s.pencilMoved[p + 1] = 1

Rule60P(s) == s.rule60active = 1

SetPencil(s, p, x) ==
  IF x = ILLEGAL_MAZEPOINT \/ x = GOAL_MAZEPOINT
    THEN [s EXCEPT !.pencil[p + 1] = x]
    ELSE [s EXCEPT !.pencil[p + 1] = GetMazePointIndex(x) % 256]

SetMovement(s, p, x) ==
  [s EXCEPT !.pencilMoved[p + 1] = IF x THEN 1 ELSE 0]

SetRule60(s, x) ==
  [s EXCEPT !.rule60active = IF x THEN 1 ELSE 0]

IllegalP(s) ==
  s.pencil[1] = ILLEGAL_MAZEPOINT \/ s.pencil[2] = ILLEGAL_MAZEPOINT

\* A slip in GoalP below: "and" where the code says "or".
GoalPBothPencils(s) ==
  s.pencil[1] = GOAL_MAZEPOINT /\ s.pencil[2] = GOAL_MAZEPOINT

GoalP(s) ==
  s.pencil[1] = GOAL_MAZEPOINT \/ s.pencil[2] = GOAL_MAZEPOINT

\* ------------------------------------------------------------------------
\* class Transition
\* ------------------------------------------------------------------------

\* Transition::Transition(void): the three State members are default
\* constructed.
NewTransition ==
  [current |-> NewState,
   next |-> <<NewState, NewState>>,
   altNext |-> <<NewState, NewState>>,
   visited |-> 0,
   altNextValid |-> <<0, 0>>]

SetCurrentState(trs, currentIn) == [trs EXCEPT !.current = currentIn]

SetNextState(trs, chosenPencil, nextIn) ==
  [trs EXCEPT !.next[chosenPencil + 1] = nextIn]

\* Mutant of SetAltNextState: the valid flag is left alone.
SetAltNextStateNoFlag(trs, chosenPencil, nextIn) ==
  [trs EXCEPT !.altNext[chosenPencil + 1] = nextIn]

SetAltNextState(trs, chosenPencil, nextIn) ==
  [trs EXCEPT !.altNext[chosenPencil + 1] = nextIn,
              !.altNextValid[chosenPencil + 1] = 1]

\* A slip in SetVisited: the valid flags of the alternate states cleared
\* along with the depth being stored, as the constructor does.
SetVisitedClearsFlags(trs, x) ==
  [trs EXCEPT !.visited = x, !.altNextValid = <<0, 0>>]

SetVisited(trs, x) == [trs EXCEPT !.visited = x]

NextState(trs, chosenPencil) == trs.next[chosenPencil + 1]

AltNextState(trs, chosenPencil) == trs.altNext[chosenPencil + 1]

AltNextValidP(trs, chosenPencil) == trs.altNextValid[chosenPencil + 1] # 0

\* ------------------------------------------------------------------------
\* Searcher: index computation
\* ------------------------------------------------------------------------

TotalStates == MAZEPOINT_COUNT * MAZEPOINT_COUNT * 2 * 2 * 2

\* ComputeIndex ends in abort(): a pencil is on no maze point.
ComputeIndexAborts(current) ==
  IndexAborts(Pencil(current, 0)) \/ IndexAborts(Pencil(current, 1))

\* Mutant of ComputeIndex: the two pencils are folded in the wrong order.
ComputeIndexPencilsSwapped(current) ==
  LET r0 == 0
      r1 == r0 * 2 + (IF MovementP(current, 0) THEN 1 ELSE 0)
      r2 == r1 * 2 + (IF MovementP(current, 1) THEN 1 ELSE 0)
      r3 == r2 * MAZEPOINT_COUNT + GetMazePointIndex(Pencil(current, 1))
      r4 == r3 * MAZEPOINT_COUNT + GetMazePointIndex(Pencil(current, 0))
      r5 == r4 * 2 + (IF Rule60P(current) THEN 1 ELSE 0)
  IN  r5

ComputeIndex(current) ==
  LET r0 == 0
      r1 == r0 * 2 + (IF MovementP(current, 0) THEN 1 ELSE 0)
      r2 == r1 * 2 + (IF MovementP(current, 1) THEN 1 ELSE 0)
      r3 == r2 * MAZEPOINT_COUNT + GetMazePointIndex(Pencil(current, 0))
      r4 == r3 * MAZEPOINT_COUNT + GetMazePointIndex(Pencil(current, 1))
      r5 == r4 * 2 + (IF Rule60P(current) THEN 1 ELSE 0)
  IN  r5

\* ------------------------------------------------------------------------
\* Searcher: the decisions of the boxes
\* ------------------------------------------------------------------------

HasBoxRedTextOrGreenTextP(x) ==
  x = 7 \/ x = 26 \/ x = 61 \/ x = 25 \/ x = 50 \/ x = 60 \/ x = 9 \/ x = 40

HasBoxGreenTextOrGreenWordP(x) ==
  x = 60 \/ x = 5 \/ x = 25 \/ x = 2 \/ x = 65 \/ x = 40 \/ x = 1

HasBoxRedWordOrGreenWordP(x) ==
  x = 5 \/ x = 25 \/ x = 2 \/ x = 60 \/ x = 1 \/ x = 40 \/ x = 65

HasBoxOddNumberP(x) == x % 2 = 1

HasBoxWordWordP(x) == x = 35 \/ x = 5

HasBoxMultipleOfFiveNumberP(x) == x % 5 = 0

DoesBoxReferToCowsP(x) == x = 50

\* A slip in GetYesPath below: the case of box 75 left out.
GetYesPathWithout75(x) ==
  CASE x = 1 -> 2
    [] x = 2 -> 7
    [] x = 5 -> 25
    [] x = 7 -> 26
    [] x = 9 -> 2
    [] x = 15 -> 5
    [] x = 25 -> 7
    [] x = 26 -> 61
    [] x = 35 -> 40
    [] x = 40 -> 65
    [] x = 50 -> GOAL_MAZEPOINT
    [] x = 55 -> 15
    [] x = 60 -> 25
    [] x = 61 -> 1
    [] x = 65 -> 75
    [] OTHER -> -1

\* GetYesPath: -1 stands for the default branch, which aborts.
GetYesPath(x) ==
  CASE x = 1 -> 2
    [] x = 2 -> 7
    [] x = 5 -> 25
    [] x = 7 -> 26
    [] x = 9 -> 2
    [] x = 15 -> 5
    [] x = 25 -> 7
    [] x = 26 -> 61
    [] x = 35 -> 40
    [] x = 40 -> 65
    [] x = 50 -> GOAL_MAZEPOINT
    [] x = 55 -> 15
    [] x = 60 -> 25
    [] x = 61 -> 1
    [] x = 65 -> 75
    [] x = 75 -> 1
    [] OTHER -> -1

HasBoxIfSentenceP(x) == x = 61 \/ x = 26 \/ x = 65

\* ------------------------------------------------------------------------
\* Searcher::DetermineNextStates
\* A call yields the transition as written by the call, the path code it
\* stored in pathTaken (-1: none stored), whether it ended in abort(), and
\* how many levels of nested calls it made.
\* ------------------------------------------------------------------------

Outcome(trs, path) ==
  [trs |-> trs, pathTaken |-> path, aborted |-> FALSE, nested |-> 0]

Aborted(trs) ==
  [trs |-> trs, pathTaken |-> -1, aborted |-> TRUE, nested |-> 0]

\* A slip in TakePath below: the move of the chosen pencil is not recorded.
TakePathNotMarked(chosenPencil, trs, next, target, path) ==
  Outcome(SetNextState(trs, chosenPencil,
                       SetPencil(next, chosenPencil, target)),
          path)

\* The four statements every ordinary exit of a box consists of:
\*   next.SetPencil(chosenPencil,target); next.SetMovement(chosenPencil,TRUE);
\*   trs.SetNextState(chosenPencil,next); pathTaken = path;
TakePath(chosenPencil, trs, next, target, path) ==
  Outcome(SetNextState(trs, chosenPencil,
                       SetMovement(SetPencil(next, chosenPencil, target),
                                   chosenPencil, TRUE)),
          path)

OtherPencil(chosenPencil) == (chosenPencil + 1) % 2

Box1(chosenPencil, trs, current, next) ==
  IF HasBoxRedTextOrGreenTextP(Pencil(current, OtherPencil(chosenPencil)))
    THEN TakePath(chosenPencil, trs, next, 2, PATH_YES)
    ELSE TakePath(chosenPencil, trs, next, 9, PATH_NO)

Box2(chosenPencil, trs, current, next) ==
  IF HasBoxGreenTextOrGreenWordP(Pencil(current, OtherPencil(chosenPencil)))
    THEN TakePath(chosenPencil, trs, next, 7, PATH_YES)
    ELSE TakePath(chosenPencil, trs, next, 15, PATH_NO)

Box5(chosenPencil, trs, current, next) ==
  IF HasBoxRedWordOrGreenWordP(Pencil(current, OtherPencil(chosenPencil)))
    THEN TakePath(chosenPencil, trs, next, 25, PATH_YES)
    ELSE TakePath(chosenPencil, trs, next, 2, PATH_NO)

Box7(chosenPencil, trs, current, next) ==
  IF Rule60P(current)
    THEN TakePath(chosenPencil, trs, next, 26, PATH_YES)
    ELSE IF HasBoxOddNumberP(Pencil(current, OtherPencil(chosenPencil)))
           THEN TakePath(chosenPencil, trs, next, 26, PATH_YES)
           ELSE TakePath(chosenPencil, trs, next, 5, PATH_NO)

Box9(chosenPencil, trs, current, next) ==
  IF Rule60P(current)
    THEN TakePath(chosenPencil, trs, next, 2, PATH_YES)
    ELSE IF MovementP(current, OtherPencil(chosenPencil))
           THEN TakePath(chosenPencil, trs, next, 2, PATH_YES)
           ELSE TakePath(chosenPencil, trs, next, 35, PATH_NO)

\* Mutant of Box15: the Yes and No exits are exchanged.
Box15ExitsSwapped(chosenPencil, trs, current, next) ==
  IF HasBoxMultipleOfFiveNumberP(Pencil(current, OtherPencil(chosenPencil)))
    THEN TakePath(chosenPencil, trs, next, 40, PATH_YES)
    ELSE TakePath(chosenPencil, trs, next, 5, PATH_NO)

Box15(chosenPencil, trs, current, next) ==
  IF HasBoxMultipleOfFiveNumberP(Pencil(current, OtherPencil(chosenPencil)))
    THEN TakePath(chosenPencil, trs, next, 5, PATH_YES)
    ELSE TakePath(chosenPencil, trs, next, 40, PATH_NO)

Box25(chosenPencil, trs, current, next) ==
  IF Rule60P(current)
    THEN TakePath(chosenPencil, trs, next, 7, PATH_YES)
    ELSE IF HasBoxRedTextOrGreenTextP(Pencil(current, OtherPencil(chosenPencil)))
           THEN TakePath(chosenPencil, trs, next, 7, PATH_YES)
           ELSE TakePath(chosenPencil, trs, next, 50, PATH_NO)

RECURSIVE DetermineNextStates(_, _)

\* Mutant of Box26: the deadly embrace marks the chosen pencil only.
Box26HalfEmbrace(chosenPencil, trs, current, next) ==
  IF Rule60P(current)
    THEN TakePath(chosenPencil, trs, next, 61, PATH_YES)
    ELSE IF Pencil(current, OtherPencil(chosenPencil)) = 26
           THEN Outcome(
                  SetNextState(trs, chosenPencil,
                    SetPencil(next, chosenPencil, ILLEGAL_MAZEPOINT)),
                  PATH_NONE)
           ELSE LET tmp == trs
                    other == DetermineNextStates(OtherPencil(chosenPencil), tmp)
                    mine == IF other.pathTaken = PATH_NO
                              THEN TakePath(chosenPencil, trs, next, 61, PATH_YES)
                              ELSE TakePath(chosenPencil, trs, next, 55, PATH_NO)
                IN  IF other.aborted
                      THEN [Aborted(trs) EXCEPT !.nested = other.nested + 1]
                      ELSE [mine EXCEPT !.nested = other.nested + 1]

\* Mutant of Box26: every answer of the other pencil but Yes counts as No.
Box26NotYesIsNo(chosenPencil, trs, current, next) ==
  IF Rule60P(current)
    THEN TakePath(chosenPencil, trs, next, 61, PATH_YES)
    ELSE IF Pencil(current, OtherPencil(chosenPencil)) = 26
           THEN Outcome(
                  SetNextState(trs, chosenPencil,
                    SetPencil(SetPencil(next, chosenPencil, ILLEGAL_MAZEPOINT),
                              OtherPencil(chosenPencil), ILLEGAL_MAZEPOINT)),
                  PATH_NONE)
           ELSE LET tmp == trs
                    other == DetermineNextStates(OtherPencil(chosenPencil), tmp)
                    mine == IF other.pathTaken # PATH_YES
                              THEN TakePath(chosenPencil, trs, next, 61, PATH_YES)
                              ELSE TakePath(chosenPencil, trs, next, 55, PATH_NO)
                IN  IF other.aborted
                      THEN [Aborted(trs) EXCEPT !.nested = other.nested + 1]
                      ELSE [mine EXCEPT !.nested = other.nested + 1]

\* A slip in box 26 below: the deadly embrace tested before the rule of
\* box 60, so that it also strikes while that rule is active.
Box26EmbraceFirst(chosenPencil, trs, current, next) ==
  IF Pencil(current, OtherPencil(chosenPencil)) = 26
    THEN Outcome(
           SetNextState(trs, chosenPencil,
             SetPencil(SetPencil(next, chosenPencil, ILLEGAL_MAZEPOINT),
                       OtherPencil(chosenPencil), ILLEGAL_MAZEPOINT)),
           PATH_NONE)
    ELSE IF Rule60P(current)
           THEN TakePath(chosenPencil, trs, next, 61, PATH_YES)
           ELSE LET tmp == trs
                    other == DetermineNextStates(OtherPencil(chosenPencil), tmp)
                    mine == IF other.pathTaken = PATH_NO
                              THEN TakePath(chosenPencil, trs, next, 61, PATH_YES)
                              ELSE TakePath(chosenPencil, trs, next, 55, PATH_NO)
                IN  IF other.aborted
                      THEN [Aborted(trs) EXCEPT !.nested = other.nested + 1]
                      ELSE [mine EXCEPT !.nested = other.nested + 1]

\* A slip in Box26 below: the nested call made on trs itself, no copy taken,
\* so that what it writes for the other pencil stays in the record.
Box26OnTheRecord(chosenPencil, trs, current, next) ==
  IF Rule60P(current)
    THEN TakePath(chosenPencil, trs, next, 61, PATH_YES)
    ELSE IF Pencil(current, OtherPencil(chosenPencil)) = 26
           THEN Outcome(
                  SetNextState(trs, chosenPencil,
                    SetPencil(SetPencil(next, chosenPencil, ILLEGAL_MAZEPOINT),
                              OtherPencil(chosenPencil), ILLEGAL_MAZEPOINT)),
                  PATH_NONE)
           ELSE LET other == DetermineNextStates(OtherPencil(chosenPencil), trs)
                    mine == IF other.pathTaken = PATH_NO
                              THEN TakePath(chosenPencil, other.trs, next, 61,
                                            PATH_YES)
                              ELSE TakePath(chosenPencil, other.trs, next, 55,
                                            PATH_NO)
                IN  IF other.aborted
                      THEN [Aborted(trs) EXCEPT !.nested = other.nested + 1]
                      ELSE [mine EXCEPT !.nested = other.nested + 1]

\* Another slip in Box26 below: the deadly embrace tested on the chosen
\* pencil, which is on 26 whenever the test is made.
Box26EmbraceOfChosen(chosenPencil, trs, current, next) ==
  IF Rule60P(current)
    THEN TakePath(chosenPencil, trs, next, 61, PATH_YES)
    ELSE IF Pencil(current, chosenPencil) = 26
           THEN Outcome(
                  SetNextState(trs, chosenPencil,
                    SetPencil(SetPencil(next, chosenPencil, ILLEGAL_MAZEPOINT),
                              OtherPencil(chosenPencil), ILLEGAL_MAZEPOINT)),
                  PATH_NONE)
           ELSE LET tmp == trs
                    other == DetermineNextStates(OtherPencil(chosenPencil), tmp)
                    mine == IF other.pathTaken = PATH_NO
                              THEN TakePath(chosenPencil, trs, next, 61, PATH_YES)
                              ELSE TakePath(chosenPencil, trs, next, 55, PATH_NO)
                IN  IF other.aborted
                      THEN [Aborted(trs) EXCEPT !.nested = other.nested + 1]
                      ELSE [mine EXCEPT !.nested = other.nested + 1]

\* Box 26 asks what the other pencil would do: unless both pencils are on 26
\* it calls DetermineNextStates for the other pencil on a copy of trs and
\* keeps only the path code of that call.
Box26(chosenPencil, trs, current, next) ==
  IF Rule60P(current)
    THEN TakePath(chosenPencil, trs, next, 61, PATH_YES)
    ELSE IF Pencil(current, OtherPencil(chosenPencil)) = 26
           THEN Outcome(
                  SetNextState(trs, chosenPencil,
                    SetPencil(SetPencil(next, chosenPencil, ILLEGAL_MAZEPOINT),
                              OtherPencil(chosenPencil), ILLEGAL_MAZEPOINT)),
                  PATH_NONE)
           ELSE LET tmp == trs
                    other == DetermineNextStates(OtherPencil(chosenPencil), tmp)
                    mine == IF other.pathTaken = PATH_NO
                              THEN TakePath(chosenPencil, trs, next, 61, PATH_YES)
                              ELSE TakePath(chosenPencil, trs, next, 55, PATH_NO)
                IN  IF other.aborted
                      THEN [Aborted(trs) EXCEPT !.nested = other.nested + 1]
                      ELSE [mine EXCEPT !.nested = other.nested + 1]

Box35(chosenPencil, trs, current, next) ==
  IF HasBoxWordWordP(Pencil(current, OtherPencil(chosenPencil)))
    THEN TakePath(chosenPencil, trs, next, 40, PATH_YES)
    ELSE TakePath(chosenPencil, trs, next, 1, PATH_NO)

\* Mutant of Box40: rule 60 is not looked at.
Box40NoOverride(chosenPencil, trs, current, next) ==
  TakePath(chosenPencil, trs, next, 60, PATH_NO)

Box40(chosenPencil, trs, current, next) ==
  IF Rule60P(current)
    THEN TakePath(chosenPencil, trs, next, 65, PATH_YES)
    ELSE TakePath(chosenPencil, trs, next, 60, PATH_NO)

Box50(chosenPencil, trs, current, next) ==
  IF Rule60P(current)
    THEN TakePath(chosenPencil, trs, next, GOAL_MAZEPOINT, PATH_YES)
    ELSE IF DoesBoxReferToCowsP(Pencil(current, OtherPencil(chosenPencil)))
           THEN TakePath(chosenPencil, trs, next, GOAL_MAZEPOINT, PATH_YES)
           ELSE TakePath(chosenPencil, trs, next, 26, PATH_NO)

\* Box 55, the free choice: the Yes exit is the next state, the Lugnut exit
\* the alternate next state, made from the same 'next' object.
Box55(chosenPencil, trs, current, next) ==
  LET yes == SetMovement(SetPencil(next, chosenPencil, 15), chosenPencil, TRUE)
      trs1 == SetNextState(trs, chosenPencil, yes)
      lugnut == SetPencil(yes, chosenPencil, 7)
  IN  Outcome(SetAltNextState(trs1, chosenPencil, lugnut), PATH_LUGNUT)

Box60(chosenPencil, trs, current, next) ==
  LET n1 == SetMovement(SetPencil(next, chosenPencil, 25), chosenPencil, TRUE)
      n2 == SetRule60(n1, TRUE)
  IN  Outcome(SetNextState(trs, chosenPencil, n2), PATH_YES)

\* Mutant of Box61: the other pencil's movement is not recorded.
Box61OtherNotMarked(chosenPencil, trs, current, next) ==
  IF Rule60P(current)
    THEN TakePath(chosenPencil, trs, next, 1, PATH_YES)
    ELSE LET otherPencil == OtherPencil(chosenPencil)
             yesPath == GetYesPath(Pencil(current, otherPencil))
             n1 == SetMovement(SetPencil(next, chosenPencil, 1), chosenPencil, TRUE)
             n2 == SetPencil(n1, otherPencil, yesPath)
         IN  IF yesPath = -1
               THEN Aborted(trs)
               ELSE Outcome(SetNextState(trs, chosenPencil, n2), PATH_YES)

\* A slip in box 61 below: the rule of box 60 is not looked at, the other
\* pencil is moved in any case.
Box61AlwaysMovesOther(chosenPencil, trs, current, next) ==
  LET otherPencil == OtherPencil(chosenPencil)
      yesPath == GetYesPath(Pencil(current, otherPencil))
      n1 == SetMovement(SetPencil(next, chosenPencil, 1), chosenPencil, TRUE)
      n2 == SetMovement(SetPencil(n1, otherPencil, yesPath), otherPencil, TRUE)
  IN  IF yesPath = -1
        THEN Aborted(trs)
        ELSE Outcome(SetNextState(trs, chosenPencil, n2), PATH_YES)

\* Box 61 moves the other pencil along its Yes path too, unless rule 60 is
\* active.
Box61(chosenPencil, trs, current, next) ==
  IF Rule60P(current)
    THEN TakePath(chosenPencil, trs, next, 1, PATH_YES)
    ELSE LET otherPencil == OtherPencil(chosenPencil)
             yesPath == GetYesPath(Pencil(current, otherPencil))
             n1 == SetMovement(SetPencil(next, chosenPencil, 1), chosenPencil, TRUE)
             n2 == SetMovement(SetPencil(n1, otherPencil, yesPath), otherPencil, TRUE)
         IN  IF yesPath = -1
               THEN Aborted(trs)
               ELSE Outcome(SetNextState(trs, chosenPencil, n2), PATH_YES)

\* A slip in box 65 below: the rule of box 60 is not cancelled.
Box65RuleKept(chosenPencil, trs, current, next) ==
  LET n1 == SetPencil(next, chosenPencil, 75)
      n3 == SetMovement(n1, chosenPencil, TRUE)
  IN  Outcome(SetNextState(trs, chosenPencil, n3), PATH_YES)

Box65(chosenPencil, trs, current, next) ==
  LET n1 == SetPencil(next, chosenPencil, 75)
      n2 == SetRule60(n1, FALSE)
      n3 == SetMovement(n2, chosenPencil, TRUE)
  IN  Outcome(SetNextState(trs, chosenPencil, n3), PATH_YES)

Box75(chosenPencil, trs, current, next) ==
  IF HasBoxIfSentenceP(Pencil(current, OtherPencil(chosenPencil)))
    THEN TakePath(chosenPencil, trs, next, 1, PATH_YES)
    ELSE TakePath(chosenPencil, trs, next, 50, PATH_NO)

DetermineNextStates(chosenPencil, trs) ==
  LET current == trs.current
      next == SetMovement(SetMovement(current, 0, FALSE), 1, FALSE)
      box == Pencil(current, chosenPencil)
  IN  IF IllegalP(current) \/ GoalP(current)
        THEN Aborted(trs)
        ELSE CASE box = 1 -> Box1(chosenPencil, trs, current, next)
               [] box = 2 -> Box2(chosenPencil, trs, current, next)
               [] box = 5 -> Box5(chosenPencil, trs, current, next)
               [] box = 7 -> Box7(chosenPencil, trs, current, next)
               [] box = 9 -> Box9(chosenPencil, trs, current, next)
               [] box = 15 -> Box15(chosenPencil, trs, current, next)
               [] box = 25 -> Box25(chosenPencil, trs, current, next)
               [] box = 26 -> Box26(chosenPencil, trs, current, next)
               [] box = 35 -> Box35(chosenPencil, trs, current, next)
               [] box = 40 -> Box40(chosenPencil, trs, current, next)
               [] box = 50 -> Box50(chosenPencil, trs, current, next)
               [] box = 55 -> Box55(chosenPencil, trs, current, next)
               [] box = 60 -> Box60(chosenPencil, trs, current, next)
               [] box = 61 -> Box61(chosenPencil, trs, current, next)
               [] box = 65 -> Box65(chosenPencil, trs, current, next)
               [] box = 75 -> Box75(chosenPencil, trs, current, next)
               [] OTHER -> Aborted(trs)

\* ------------------------------------------------------------------------
\* Searcher::Searcher and Searcher::EnumerateTransitions
\* ------------------------------------------------------------------------

\* new Transition[TotalStates()]
NewSpace == [i \in 0..(TotalStates - 1) |-> NewTransition]

\* The state 'current' one iteration of the innermost loop sets up.
IterationState(pencil0mv, pencil1mv, curP0, curP1, curR60) ==
  LET c1 == SetPencil(NewState, 0, MAZEPOINT[curP0 + 1])
      c2 == SetPencil(c1, 1, MAZEPOINT[curP1 + 1])
      c3 == SetRule60(c2, curR60)
      c4 == SetMovement(c3, 0, pencil0mv)
  IN  SetMovement(c4, 1, pencil1mv)

\* A slip in the block below: the call for pencil 1 made on the state the
\* move of pencil 0 leads to, the two moves taken one after the other.
EnumerateBodyInSequence(sa, current) ==
  IF sa.aborted \/ ComputeIndexAborts(current)
    THEN [sa EXCEPT !.aborted = TRUE]
    ELSE LET idx == ComputeIndex(current)
         IN  IF ~(idx < TotalStates)
               THEN [sa EXCEPT !.aborted = TRUE]
               ELSE LET t0 == SetCurrentState(sa.space[idx], current)
                        r0 == DetermineNextStates(0, t0)
                        r1 == DetermineNextStates(
                                1, SetCurrentState(r0.trs, NextState(r0.trs, 0)))
                    IN  IF r0.aborted \/ r1.aborted
                          THEN [sa EXCEPT !.aborted = TRUE]
                          ELSE [sa EXCEPT
                                  !.space[idx] = SetCurrentState(r1.trs, current)]

\* The block of the innermost loop: store 'current' at its index and compute
\* the next states for pencil 0, then for pencil 1, on the stored transition.
\* sa is the table together with a flag telling that the program aborted.
EnumerateBody(sa, current) ==
  IF sa.aborted \/ ComputeIndexAborts(current)
    THEN [sa EXCEPT !.aborted = TRUE]
    ELSE LET idx == ComputeIndex(current)
         IN  IF ~(idx < TotalStates)
               THEN [sa EXCEPT !.aborted = TRUE]
               ELSE LET t0 == SetCurrentState(sa.space[idx], current)
                        r0 == DetermineNextStates(0, t0)
                        r1 == DetermineNextStates(1, r0.trs)
                    IN  IF r0.aborted \/ r1.aborted
                          THEN [sa EXCEPT !.aborted = TRUE]
                          ELSE [sa EXCEPT !.space[idx] = r1.trs]

\* The loop variables after one more pass through the innermost block;
\* finished tells that all five loops have been left.
Advance(l) ==
  IF l.curR60
    THEN [l EXCEPT !.curR60 = FALSE]
    ELSE IF l.curP1 + 1 < MAZEPOINT_COUNT
      THEN [l EXCEPT !.curR60 = TRUE, !.curP1 = l.curP1 + 1]
      ELSE IF l.curP0 + 1 < MAZEPOINT_COUNT
        THEN [l EXCEPT !.curR60 = TRUE, !.curP1 = 0, !.curP0 = l.curP0 + 1]
        ELSE IF l.pencil1mv
          THEN [l EXCEPT !.curR60 = TRUE, !.curP1 = 0, !.curP0 = 0,
                         !.pencil1mv = FALSE]
          ELSE IF l.pencil0mv
            THEN [l EXCEPT !.curR60 = TRUE, !.curP1 = 0, !.curP0 = 0,
                           !.pencil1mv = TRUE, !.pencil0mv = FALSE]
            ELSE [l EXCEPT !.finished = TRUE]

\* The construction's state when EnumerateTransitions starts on table sp: pc,
\* the loop variables and the table.
StartOfEnumeration(sp) ==
  [pc |-> "build",
   loop |-> [pencil0mv |-> TRUE, pencil1mv |-> TRUE, curP0 |-> 0, curP1 |-> 0,
             curR60 |-> TRUE, finished |-> FALSE],
   space |-> sp]

\* The loop variables after n passes.
RECURSIVE AdvanceBy(_, _)

AdvanceBy(l, n) ==
  IF n = 0 THEN l
  ELSE IF n = 1 THEN Advance(l)
  ELSE CHOOSE last \in {AdvanceBy(half, n - (n \div 2)) :
                          half \in {AdvanceBy(l, n \div 2)}} : TRUE

\* One pass through the body of the innermost loop, and the loop variables
\* moved on.
EnumerateStepOf(b) ==
  IF b.pc # "build" THEN b
  ELSE LET current == IterationState(b.loop.pencil0mv, b.loop.pencil1mv,
                                     b.loop.curP0, b.loop.curP1, b.loop.curR60)
           sa == EnumerateBody([space |-> b.space, aborted |-> FALSE], current)
           l == Advance(b.loop)
       IN  [pc |-> IF sa.aborted THEN "aborted"
                   ELSE IF l.finished THEN "built" ELSE "build",
            loop |-> l,
            space |-> sa.space]

RECURSIVE EnumerateStepsOf(_, _)

\* n passes, or as many as there are: the first half of them, then from
\* their outcome the rest.
EnumerateStepsOf(b, n) ==
  IF b.pc # "build" \/ n = 0 THEN b
  ELSE IF n = 1 THEN EnumerateStepOf(b)
  ELSE CHOOSE last \in {EnumerateStepsOf(half, n - (n \div 2)) :
                          half \in {EnumerateStepsOf(b, n \div 2)}} : TRUE

\* EnumerateTransitions run from its first statement to its last on table
\* sp: one pass for each of the TotalStates states.
EnumerateTransitions(sp) == EnumerateStepsOf(StartOfEnumeration(sp), TotalStates)

\* The constructor: the table allocated and enumerated.
StartOfBuild == StartOfEnumeration(NewSpace)

\* What the constructor leaves behind: the table, and whether the program
\* got through the enumeration or aborted in it.
Constructed == EnumerateTransitions(NewSpace)

\* The table the constructor leaves behind.
BuiltSpace == Constructed.space

\* ------------------------------------------------------------------------
\* State of the model
\* ------------------------------------------------------------------------

VARIABLES
  pc,          \* where the program is: "eval", "build", "built", "run",
               \* "done", "dump", "dumped", "aborted"
  subject,     \* the Transition a rule is evaluated on
  evaluated,   \* the pencils DetermineNextStates was called for on it, in order
  pathTaken,   \* the path code stored by the last call (-1: none yet)
  nesting,     \* how deep the calls nested in the last call went (-1: no call)
  index,       \* the result of ComputeIndex (-1: not computed)
  loop,        \* the loop variables of EnumerateTransitions
  space,       \* Searcher::space while it is being built
  visited,     \* the 'visited' member of every Transition of space
  stack,       \* the activation records of RecTraverse, innermost last
  stackTrace,  \* the stack tracer of StartTraversal
  maxDepth,    \* maxDepth of StartTraversal
  goalLog,     \* one entry per "Goal state encountered" message
  illegalLog,  \* one entry per "Illegal state encountered" message
  stamps,      \* the number of calls of SetVisited the traversal has made
  written,     \* the record the last call of SetVisited has written, if any
  dumped       \* DumpTransitions: its loop variables, the indices it has
               \* looked at and the indices of the records it has written out

vars ==
  <<pc, subject, evaluated, pathTaken, nesting, index, loop, space, visited, stack,
    stackTrace, maxDepth, goalLog, illegalLog, stamps, written, dumped>>

evalVars == <<subject, evaluated, pathTaken, nesting, index>>

buildVars == <<loop, space>>

runVars ==
  <<visited, stack, stackTrace, maxDepth, goalLog, illegalLog, stamps, written, dumped>>

\* DumpTransitions before its first pass.
StartOfDump ==
  [loop |-> StartOfBuild.loop, inspected |-> <<>>, output |-> <<>>]

\* The states with both pencils on maze points: the states the table has an
\* entry for.
LegalStates ==
  {[pencil |-> <<i0, i1>>, pencilMoved |-> <<m0, m1>>, rule60active |-> r] :
     i0 \in 0..(MAZEPOINT_COUNT - 1), i1 \in 0..(MAZEPOINT_COUNT - 1),
     m0 \in {0, 1}, m1 \in {0, 1}, r \in {0, 1}}

EvalIdle ==
  /\ subject = NewTransition
  /\ evaluated = <<>>
  /\ pathTaken = -1
  /\ nesting = -1
  /\ index = -1

BuildIdle == loop = <<>> /\ space = <<>>

RunIdle ==
  /\ visited = <<>>
  /\ stack = <<>>
  /\ stackTrace = <<>>
  /\ maxDepth = 0
  /\ goalLog = <<>>
  /\ illegalLog = <<>>
  /\ stamps = 0
  /\ written = <<>>
  /\ dumped = StartOfDump

\* ------------------------------------------------------------------------
\* Evaluation of single calls: ComputeIndex and DetermineNextStates applied
\* to a transition whose current state is any of the legal states.
\* ------------------------------------------------------------------------

InitEval ==
  /\ pc = "eval"
  /\ \E c \in LegalStates : subject = SetCurrentState(NewTransition, c)
  /\ evaluated = <<>>
  /\ pathTaken = -1
  /\ nesting = -1
  /\ index = -1
  /\ BuildIdle
  /\ RunIdle

ComputeIndexCall ==
  /\ pc = "eval"
  /\ index = -1
  /\ IF ComputeIndexAborts(subject.current)
       THEN pc' = "aborted" /\ UNCHANGED index
       ELSE index' = ComputeIndex(subject.current) /\ UNCHANGED pc
  /\ UNCHANGED <<subject, evaluated, pathTaken, nesting, buildVars, runVars>>

DetermineNextStatesCall(chosenPencil) ==
  /\ pc = "eval"
  /\ \A k \in 1..Len(evaluated) : evaluated[k] # chosenPencil
  /\ LET r == DetermineNextStates(chosenPencil, subject)
     IN  /\ subject' = r.trs
         /\ pathTaken' = r.pathTaken
         /\ nesting' = r.nested
         /\ pc' = IF r.aborted THEN "aborted" ELSE pc
  /\ evaluated' = Append(evaluated, chosenPencil)
  /\ UNCHANGED <<index, buildVars, runVars>>

NextEval ==
  \/ ComputeIndexCall
  \/ \E chosenPencil \in Pencils : DetermineNextStatesCall(chosenPencil)

SpecEval == InitEval /\ [][NextEval]_vars

\* ------------------------------------------------------------------------
\* Construction of the table, one pass through the innermost block of
\* EnumerateTransitions per step.
\* ------------------------------------------------------------------------

\* The construction's state as the variables hold it.
NowBuild == [pc |-> pc, loop |-> loop, space |-> space]

BuildBecomes(b) ==
  \E after \in {b} :
    /\ pc' = after.pc
    /\ loop' = after.loop
    /\ space' = after.space
    /\ UNCHANGED <<evalVars, runVars>>

InitBuild ==
  /\ pc = StartOfBuild.pc
  /\ loop = StartOfBuild.loop
  /\ space = StartOfBuild.space
  /\ EvalIdle
  /\ RunIdle

EnumerateStep == pc = "build" /\ BuildBecomes(EnumerateStepOf(NowBuild))

\* The constructor taken in one piece: the loops of EnumerateTransitions
\* from the first pass to the last, one pass for each of the TotalStates
\* states.
Searcher ==
  /\ NowBuild = StartOfBuild
  /\ BuildBecomes(EnumerateTransitions(space))

NextBuild == Searcher \/ EnumerateStep

SpecBuild == InitBuild /\ [][NextBuild]_vars

\* ------------------------------------------------------------------------
\* Searcher::StartTraversal and Searcher::RecTraverse.
\* The table is the one the constructor built; of its records only the
\* 'visited' member changes, which the variable visited holds.  The
\* recursion is the variable stack: one activation record per call that has
\* not returned, with the place where the call stands:
\*   "entry" before the test of 'visited',
\*   "next"  before the inspection of NextState(pencil),
\*   "alt"   before the inspection of AltNextState(pencil),
\*   "incr"  before pencil++.
\* A step of the traversal is a function of the traversal's state r, a
\* record of pc and the six variables of the traversal.
\* ------------------------------------------------------------------------

\* The deepest recursion the model follows.
MaxDepth == 2048

\* The number of steps the model gives a traversal taken in one piece.
MaxSteps == 300000

StartState ==
  SetPencil(SetPencil(NewState, 0, START_PENCIL_0), 1, START_PENCIL_1)

Activation(idx, depth) ==
  [index |-> idx, depth |-> depth, pencil |-> 0, at |-> "entry"]

\* The traversal's state when StartTraversal calls RecTraverse, the
\* constructor having run; if the constructor aborted there is no traversal.
StartOfTraversal ==
  [pc |-> IF Constructed.pc = "built" THEN "run" ELSE "aborted",
   visited |-> [i \in 0..(TotalStates - 1) |-> BuiltSpace[i].visited],
   stack |-> <<Activation(ComputeIndex(StartState), 1)>>,
   stackTrace |-> [i \in 0..(TRACE_ENTRIES - 1) |-> NewState],
   maxDepth |-> 0,
   goalLog |-> <<>>,
   illegalLog |-> <<>>,
   stamps |-> 0,
   written |-> <<>>,
   dumped |-> StartOfDump]

TopOf(r) == r.stack[Len(r.stack)]

\* The callers' activation records once the innermost call has returned.
Return(r) == SubSeq(r.stack, 1, Len(r.stack) - 1)

\* The stack with the innermost call moved to another place.
Goto(r, at, pencil) ==
  [r.stack EXCEPT ![Len(r.stack)] = [TopOf(r) EXCEPT !.at = at, !.pencil = pencil]]

\* A slip in the test below: the comparison of the depths turned around.
BeenHereDeeper(v, depth) == v > 0 /\ v >= depth

\* Another slip in the test below: "Visited()>=0" for "Visited()>0".
BeenHereOrNot(v, depth) == v >= 0 /\ v <= depth

\* A slip in the test below: the depths not compared, a record that carries
\* a depth never entered again.
BeenHereAtAll(v, depth) == v > 0

\* The test RecTraverse starts with: "we have been here earlier".
BeenHereEarlier(v, depth) == v > 0 /\ v <= depth

\* A slip in DumpStackTrace below: "depth>=37" for "depth>37".
DumpStackTraceBelow37(trace, depth) ==
  IF depth >= DUMP_MAX_DEPTH THEN <<>>
  ELSE [i \in 1..depth |-> trace[i - 1]]

\* DumpStackTrace: the states it writes out, in order; none beyond depth 37.
DumpStackTrace(trace, depth) ==
  IF depth > DUMP_MAX_DEPTH THEN <<>>
  ELSE [i \in 1..depth |-> trace[i - 1]]

\* space[i] as the traversal finds it: the record the constructor has
\* built, with the depth the traversal has stored in it.
RecordAt(r, i) == [BuiltSpace[i] EXCEPT !.visited = r.visited[i]]

\* A slip in the recording below: the limit of DumpStackTrace taken for the
\* size of the stack tracer, "depth<=37" for "depth<=TRACE_ENTRIES".
EnterOfTracedUpTo37(r) ==
  LET top == TopOf(r)
      stamped == SetVisited(RecordAt(r, top.index), top.depth)
  IN  IF BeenHereEarlier(r.visited[top.index], top.depth)
        THEN [r EXCEPT !.stack = Return(r)]
        ELSE [r EXCEPT
                !.visited[top.index] = stamped.visited,
                !.stamps = r.stamps + 1,
                !.written = <<[index |-> top.index, record |-> stamped]>>,
                !.maxDepth = IF r.maxDepth < top.depth THEN top.depth
                                                       ELSE r.maxDepth,
                !.stackTrace =
                   IF top.depth <= DUMP_MAX_DEPTH
                     THEN [r.stackTrace EXCEPT
                             ![top.depth - 1] = BuiltSpace[top.index].current]
                     ELSE r.stackTrace,
                !.stack = Goto(r, "next", 0)]

\* A slip in the noting of the depth below: "maxDepth=depth" without the
\* test before it, the depth of the last call noted and not the greatest.
EnterOfLastDepth(r) ==
  LET top == TopOf(r)
      stamped == SetVisited(RecordAt(r, top.index), top.depth)
  IN  IF BeenHereEarlier(r.visited[top.index], top.depth)
        THEN [r EXCEPT !.stack = Return(r)]
        ELSE [r EXCEPT
                !.visited[top.index] = stamped.visited,
                !.stamps = r.stamps + 1,
                !.written = <<[index |-> top.index, record |-> stamped]>>,
                !.maxDepth = top.depth,
                !.stackTrace =
                   IF top.depth <= TRACE_ENTRIES
                     THEN [r.stackTrace EXCEPT
                             ![top.depth - 1] = BuiltSpace[top.index].current]
                     ELSE r.stackTrace,
                !.stack = Goto(r, "next", 0)]

\* Another slip in the recording below: "stackTrace[depth]" for
\* "stackTrace[depth-1]".
EnterOfTracedOneUp(r) ==
  LET top == TopOf(r)
      stamped == SetVisited(RecordAt(r, top.index), top.depth)
  IN  IF BeenHereEarlier(r.visited[top.index], top.depth)
        THEN [r EXCEPT !.stack = Return(r)]
        ELSE [r EXCEPT
                !.visited[top.index] = stamped.visited,
                !.stamps = r.stamps + 1,
                !.written = <<[index |-> top.index, record |-> stamped]>>,
                !.maxDepth = IF r.maxDepth < top.depth THEN top.depth
                                                       ELSE r.maxDepth,
                !.stackTrace =
                   IF top.depth < TRACE_ENTRIES
                     THEN [r.stackTrace EXCEPT
                             ![top.depth] = BuiltSpace[top.index].current]
                     ELSE r.stackTrace,
                !.stack = Goto(r, "next", 0)]

\* Lines 1071-1083: return at once, or stamp the record, note the depth and
\* record the current state in the stack tracer.
EnterOf(r) ==
  LET top == TopOf(r)
      stamped == SetVisited(RecordAt(r, top.index), top.depth)
  IN  IF BeenHereEarlier(r.visited[top.index], top.depth)
        THEN [r EXCEPT !.stack = Return(r)]
        ELSE [r EXCEPT
                !.visited[top.index] = stamped.visited,
                !.stamps = r.stamps + 1,
                !.written = <<[index |-> top.index, record |-> stamped]>>,
                !.maxDepth = IF r.maxDepth < top.depth THEN top.depth
                                                       ELSE r.maxDepth,
                !.stackTrace =
                   IF top.depth <= TRACE_ENTRIES
                     THEN [r.stackTrace EXCEPT
                             ![top.depth - 1] = BuiltSpace[top.index].current]
                     ELSE r.stackTrace,
                !.stack = Goto(r, "next", 0)]

\* A slip in the dispatch below: "continue" for "return" after an illegal
\* state, the call going on with what follows the abandoned branch.
DispatchIllegalSkipsBranch(r, s, resume) ==
  LET top == TopOf(r)
  IN  IF IllegalP(s)
        THEN [r EXCEPT !.illegalLog = Append(r.illegalLog, top.depth),
                       !.stack = Goto(r, resume, top.pencil)]
        ELSE IF GoalP(s)
          THEN [r EXCEPT
                  !.goalLog = Append(r.goalLog,
                                     [depth |-> top.depth,
                                      traced |-> DumpStackTrace(r.stackTrace,
                                                                top.depth)]),
                  !.stack = Return(r)]
          ELSE IF ComputeIndexAborts(s)
            THEN [r EXCEPT !.pc = "aborted"]
            ELSE [r EXCEPT
                    !.stack = Append(Goto(r, resume, top.pencil),
                                     Activation(ComputeIndex(s), top.depth + 1))]

\* The three-way dispatch on a successor state s of the innermost call:
\* illegal and goal states are reported and end the call, any other state is
\* entered one level deeper, the call standing at 'resume' meanwhile.
Dispatch(r, s, resume) ==
  LET top == TopOf(r)
  IN  IF IllegalP(s)
        THEN [r EXCEPT !.illegalLog = Append(r.illegalLog, top.depth),
                       !.stack = Return(r)]
        ELSE IF GoalP(s)
          THEN [r EXCEPT
                  !.goalLog = Append(r.goalLog,
                                     [depth |-> top.depth,
                                      traced |-> DumpStackTrace(r.stackTrace,
                                                                top.depth)]),
                  !.stack = Return(r)]
          ELSE IF ComputeIndexAborts(s)
            THEN [r EXCEPT !.pc = "aborted"]
            ELSE [r EXCEPT
                    !.stack = Append(Goto(r, resume, top.pencil),
                                     Activation(ComputeIndex(s), top.depth + 1))]

\* Lines 1086-1101.
InspectNextOf(r) ==
  Dispatch(r, NextState(BuiltSpace[TopOf(r).index], TopOf(r).pencil), "alt")

\* A slip in the loop test below: "pencil<1", the loop left after pencil 0.
IncrementOfOnePencil(r) ==
  IF TopOf(r).pencil + 1 < 1
    THEN [r EXCEPT !.stack = Goto(r, "next", TopOf(r).pencil + 1)]
    ELSE [r EXCEPT !.stack = Return(r)]

\* pencil++ and the loop test: the next pencil, or the end of the call.
IncrementOf(r) ==
  IF TopOf(r).pencil + 1 < 2
    THEN [r EXCEPT !.stack = Goto(r, "next", TopOf(r).pencil + 1)]
    ELSE [r EXCEPT !.stack = Return(r)]

\* Lines 1102-1119; without a valid alternate state the loop goes on.
InspectAltOf(r) ==
  IF AltNextValidP(BuiltSpace[TopOf(r).index], TopOf(r).pencil)
    THEN Dispatch(r, AltNextState(BuiltSpace[TopOf(r).index], TopOf(r).pencil),
                  "incr")
    ELSE IncrementOf(r)

\* Lines 1066-1067: the outermost call has returned.
FinishOf(r) == [r EXCEPT !.pc = "done"]

\* No step is left: the traversal is over, or it stands before a call deeper
\* than the model follows.
Halted(r) ==
  \/ r.pc # "run"
  \/ r.stack # <<>> /\ TopOf(r).at = "entry" /\ TopOf(r).depth > MaxDepth

\* The one step the program takes next.
StepOf(r) ==
  IF Halted(r) THEN r
  ELSE IF r.stack = <<>> THEN FinishOf(r)
  ELSE CASE TopOf(r).at = "entry" -> EnterOf(r)
         [] TopOf(r).at = "next" -> InspectNextOf(r)
         [] TopOf(r).at = "alt" -> InspectAltOf(r)
         [] TopOf(r).at = "incr" -> IncrementOf(r)

RECURSIVE StepsOf(_, _)

\* n steps, or as many as there are: the first half of them, then from
\* their outcome the rest.
StepsOf(r, n) ==
  IF Halted(r) \/ n = 0 THEN r
  ELSE IF n = 1 THEN StepOf(r)
  ELSE CHOOSE last \in {StepsOf(half, n - (n \div 2)) :
                          half \in {StepsOf(r, n \div 2)}} : TRUE

\* The traversal's state as the variables hold it.
Now ==
  [pc |-> pc, visited |-> visited, stack |-> stack, stackTrace |-> stackTrace,
   maxDepth |-> maxDepth, goalLog |-> goalLog, illegalLog |-> illegalLog,
   stamps |-> stamps, written |-> written, dumped |-> dumped]

Becomes(r) ==
  \E after \in {r} :
    /\ pc' = after.pc
    /\ visited' = after.visited
    /\ stack' = after.stack
    /\ stackTrace' = after.stackTrace
    /\ maxDepth' = after.maxDepth
    /\ goalLog' = after.goalLog
    /\ illegalLog' = after.illegalLog
    /\ stamps' = after.stamps
    /\ written' = after.written
    /\ dumped' = after.dumped
    /\ UNCHANGED <<evalVars, buildVars>>

InitRun ==
  /\ \E start \in {StartOfTraversal} :
       /\ pc = start.pc
       /\ visited = start.visited
       /\ stack = start.stack
       /\ stackTrace = start.stackTrace
       /\ maxDepth = start.maxDepth
       /\ goalLog = start.goalLog
       /\ illegalLog = start.illegalLog
       /\ stamps = start.stamps
       /\ written = start.written
       /\ dumped = start.dumped
  /\ EvalIdle
  /\ BuildIdle

At(place) == pc = "run" /\ stack # <<>> /\ ~Halted(Now) /\ TopOf(Now).at = place

Enter == At("entry") /\ Becomes(EnterOf(Now))

InspectNext == At("next") /\ Becomes(InspectNextOf(Now))

InspectAlt == At("alt") /\ Becomes(InspectAltOf(Now))

Increment == At("incr") /\ Becomes(IncrementOf(Now))

Finish == pc = "run" /\ stack = <<>> /\ Becomes(FinishOf(Now))

\* StartTraversal taken in one piece: from the call of RecTraverse to its
\* return, the same steps without a stop in between.
StartTraversal == Now = StartOfTraversal /\ Becomes(StepsOf(Now, MaxSteps))

\* A slip in the pass below: the test "Visited()>0" written as
\* "Visited()>=0", every record written out.
DumpStepAllOf(r) ==
  IF r.pc \notin {"done", "dump"} THEN r
  ELSE LET l == r.dumped.loop
           current == IterationState(l.pencil0mv, l.pencil1mv, l.curP0,
                                     l.curP1, l.curR60)
           idx == ComputeIndex(current)
           after == Advance(l)
       IN  IF ComputeIndexAborts(current) \/ ~(idx < TotalStates)
             THEN [r EXCEPT !.pc = "aborted"]
             ELSE [r EXCEPT
                     !.pc = IF after.finished THEN "dumped" ELSE "dump",
                     !.dumped =
                        [loop |-> after,
                         inspected |-> Append(r.dumped.inspected, idx),
                         output |-> IF r.visited[idx] >= 0
                                      THEN Append(r.dumped.output, idx)
                                      ELSE r.dumped.output]]

\* One pass through the body of the innermost loop of DumpTransitions: the
\* state of the loop variables, its index, and the record at that index
\* written out if it has been visited.
DumpStepOf(r) ==
  IF r.pc \notin {"done", "dump"} THEN r
  ELSE LET l == r.dumped.loop
           current == IterationState(l.pencil0mv, l.pencil1mv, l.curP0,
                                     l.curP1, l.curR60)
           idx == ComputeIndex(current)
           after == Advance(l)
       IN  IF ComputeIndexAborts(current) \/ ~(idx < TotalStates)
             THEN [r EXCEPT !.pc = "aborted"]
             ELSE [r EXCEPT
                     !.pc = IF after.finished THEN "dumped" ELSE "dump",
                     !.dumped =
                        [loop |-> after,
                         inspected |-> Append(r.dumped.inspected, idx),
                         output |-> IF r.visited[idx] > 0
                                      THEN Append(r.dumped.output, idx)
                                      ELSE r.dumped.output]]

RECURSIVE DumpStepsOf(_, _)

\* n passes, or as many as there are.
DumpStepsOf(r, n) ==
  IF r.pc \notin {"done", "dump"} \/ n = 0 THEN r
  ELSE IF n = 1 THEN DumpStepOf(r)
  ELSE CHOOSE last \in {DumpStepsOf(half, n - (n \div 2)) :
                          half \in {DumpStepsOf(r, n \div 2)}} : TRUE

DumpStep == pc \in {"done", "dump"} /\ Becomes(DumpStepOf(Now))

\* DumpTransitions taken in one piece: one pass for each of the TotalStates
\* states.
DumpTransitions == pc = "done" /\ Becomes(DumpStepsOf(Now, TotalStates))

\* main: the traversal, then the dump.
NextRun ==
  \/ StartTraversal
  \/ Enter \/ InspectNext \/ InspectAlt \/ Increment \/ Finish
  \/ DumpTransitions
  \/ DumpStep

SpecRun == InitRun /\ [][NextRun]_vars

\* RecTraverse as a method of its own: called at depth 1 on a record of the
\* table the constructor left, for records from which the search is short.
\* These are the records with pencil 1 on 50 and either rule 60 active and
\* pencil 0 not on 40 or 65, or pencil 0 on 26; and the records of the
\* deadly embrace, both pencils on 26 without rule 60.
VisitStarts ==
  {i \in 0..(TotalStates - 1) :
     LET c == BuiltSpace[i].current
     IN  \/ /\ Pencil(c, 1) = 50
            /\ \/ Rule60P(c) /\ Pencil(c, 0) \notin {40, 65}
               \/ Pencil(c, 0) = 26
         \/ /\ Pencil(c, 0) = 26
            /\ Pencil(c, 1) = 26
            /\ ~Rule60P(c)}

InitVisit ==
  /\ \E start \in {StartOfTraversal} :
       /\ pc = start.pc
       /\ visited = start.visited
       /\ \E i \in VisitStarts : stack = <<Activation(i, 1)>>
       /\ stackTrace = start.stackTrace
       /\ maxDepth = start.maxDepth
       /\ goalLog = start.goalLog
       /\ illegalLog = start.illegalLog
       /\ stamps = start.stamps
       /\ written = start.written
       /\ dumped = start.dumped
  /\ EvalIdle
  /\ BuildIdle

NextVisit == Enter \/ InspectNext \/ InspectAlt \/ Increment \/ Finish

SpecVisit == InitVisit /\ [][NextVisit]_vars

\* ------------------------------------------------------------------------
\* Properties of single calls (SpecEval)
\* ------------------------------------------------------------------------

\* DetermineNextStates has been called for pencil p on subject.
Has(p) == \E k \in 1..Len(evaluated) : evaluated[k] = p

\* The last call was for pencil p, so pathTaken is the code that call stored.
Last(p) == Len(evaluated) > 0 /\ evaluated[Len(evaluated)] = p

Mode == Rule60P(subject.current)

PosOf(p) == Pencil(subject.current, p)

NextPosOf(chosenPencil, p) == Pencil(NextState(subject, chosenPencil), p)

\* Ordinal of a maze point in the sorted list of the maze points.
Ordinal(x) == Cardinality({y \in MazePoints : y < x})

FlagOf(b) == IF b THEN 1 ELSE 0

\* The id the composition order of the specification gives.
IdOf(c) ==
  ((((FlagOf(MovementP(c, 0)) * 2 + FlagOf(MovementP(c, 1))) * 16
      + Ordinal(Pencil(c, 0))) * 16
      + Ordinal(Pencil(c, 1))) * 2
      + FlagOf(Rule60P(c)))

\* The maze point with ordinal k.
PointAt(k) == CHOOSE x \in MazePoints : Ordinal(x) = k

\* The inverse of the composition: the fields an id stands for.
FieldsOf(id) ==
  [m0 |-> (id \div 1024) % 2, m1 |-> (id \div 512) % 2,
   p0 |-> PointAt((id \div 32) % 16), p1 |-> PointAt((id \div 2) % 16),
   r |-> id % 2]

FieldsOfState(c) ==
  [m0 |-> FlagOf(MovementP(c, 0)), m1 |-> FlagOf(MovementP(c, 1)),
   p0 |-> Pencil(c, 0), p1 |-> Pencil(c, 1), r |-> FlagOf(Rule60P(c))]

\* C3: ComputeIndex maps the 2048 legal states one-to-one onto 0..2047, with
\* id = ((((m0*2 + m1)*16 + ord0)*16 + ord1)*2 + r); decoding the id by the
\* inverse arithmetic gives the state back, and 2048 distinct ids exist.
C3_IndexBijection ==
  (pc = "eval" /\ index # -1) =>
    /\ index = IdOf(subject.current)
    /\ index \in 0..(TotalStates - 1)
    /\ TotalStates = 2048
    /\ FieldsOf(index) = FieldsOfState(subject.current)
    /\ evaluated = <<>> =>
         /\ \A d \in LegalStates : ComputeIndex(d) = index => d = subject.current
         /\ (index = 0 =>
               Cardinality({ComputeIndex(d) : d \in LegalStates}) = 2048)

C3_Witness ==
  /\ pc = "eval"
  /\ index = 1120
  /\ PosOf(0) = 7 /\ PosOf(1) = 1
  /\ MovementP(subject.current, 0) /\ ~MovementP(subject.current, 1) /\ ~Mode

RedOrGreenText == {7, 9, 25, 26, 40, 50, 60, 61}

GreenTextOrWord == {1, 2, 5, 25, 40, 60, 65}

\* The rule table of claim C5: does the condition of box 'pos' hold, given
\* the other pencil's box and whether the other pencil moved last.
ConditionHolds(pos, other, otherMoved) ==
  CASE pos = 1 -> other \in RedOrGreenText
    [] pos = 2 -> other \in GreenTextOrWord
    [] pos = 5 -> other \in GreenTextOrWord
    [] pos = 7 -> other % 2 = 1
    [] pos = 9 -> otherMoved
    [] pos = 15 -> other % 5 = 0
    [] pos = 25 -> other \in RedOrGreenText
    [] pos = 35 -> other \in {5, 35}
    [] pos = 50 -> other = 50
    [] pos = 75 -> other \in {26, 61, 65}

YesTarget(pos) ==
  CASE pos = 1 -> 2 [] pos = 2 -> 7 [] pos = 5 -> 25 [] pos = 7 -> 26
    [] pos = 9 -> 2 [] pos = 15 -> 5 [] pos = 25 -> 7 [] pos = 26 -> 61
    [] pos = 35 -> 40 [] pos = 40 -> 65 [] pos = 50 -> GOAL_MAZEPOINT
    [] pos = 61 -> 1 [] pos = 75 -> 1

NoTarget(pos) ==
  CASE pos = 1 -> 9 [] pos = 2 -> 15 [] pos = 5 -> 2 [] pos = 7 -> 5
    [] pos = 9 -> 35 [] pos = 15 -> 40 [] pos = 25 -> 50 [] pos = 35 -> 1
    [] pos = 40 -> 60 [] pos = 50 -> 26 [] pos = 75 -> 50

\* C5: for the boxes 1, 2, 5, 15, 35, 75 (any mode flag) and 7, 9, 25, 50
\* (mode flag false) the chosen pencil goes to the YES target when the rule's
\* condition holds for the other pencil and to the NO target otherwise.
C5_GenericRules ==
  \A p \in Pencils :
    (/\ pc = "eval"
     /\ Has(p)
     /\ \/ PosOf(p) \in {1, 2, 5, 15, 35, 75}
        \/ PosOf(p) \in {7, 9, 25, 50} /\ ~Mode) =>
      LET holds == ConditionHolds(PosOf(p), PosOf(1 - p),
                                  MovementP(subject.current, 1 - p))
      IN  /\ NextPosOf(p, p) = IF holds THEN YesTarget(PosOf(p))
                                        ELSE NoTarget(PosOf(p))
          /\ Last(p) => pathTaken = IF holds THEN PATH_YES ELSE PATH_NO

C5_Witness ==
  /\ pc = "eval" /\ Has(0) /\ ~Mode
  /\ PosOf(0) = 15 /\ PosOf(1) = 26 /\ NextPosOf(0, 0) = 40
  /\ Has(1)

RedTextBoxes == {7, 9, 25, 26, 40, 50, 61}

\* C6: with the mode flag true a pencil on a red-text box (7, 9, 25, 26, 40,
\* 50, 61) takes YES whatever the other pencil's box and flags; with the
\* mode flag false box 40 always takes NO to 60.
C6_RedTextOverride ==
  \A p \in Pencils :
    (pc = "eval" /\ Has(p)) =>
      /\ (Mode /\ PosOf(p) \in RedTextBoxes) =>
           /\ NextPosOf(p, p) = YesTarget(PosOf(p))
           /\ Last(p) => pathTaken = PATH_YES
      /\ (~Mode /\ PosOf(p) = 40) =>
           /\ NextPosOf(p, p) = 60
           /\ Last(p) => pathTaken = PATH_NO

C6_Witness ==
  /\ pc = "eval" /\ Has(1) /\ Last(1) /\ Mode
  /\ PosOf(1) = 50 /\ PosOf(0) = 1
  /\ NextPosOf(1, 1) = GOAL_MAZEPOINT /\ pathTaken = PATH_YES

BothOn26 == PosOf(0) = 26 /\ PosOf(1) = 26

Deadlocked(p) ==
  /\ NextPosOf(p, 0) = ILLEGAL_MAZEPOINT
  /\ NextPosOf(p, 1) = ILLEGAL_MAZEPOINT
  /\ Last(p) => pathTaken = PATH_NONE

\* C7 as stated: with both pencils on 26, whatever the mode flag, the
\* evaluation classifies DEADLOCK and both successor positions are ILLEGAL.
C7_DeadlockAnyMode ==
  \A p \in Pencils : (pc = "eval" /\ Has(p) /\ BothOn26) => Deadlocked(p)

\* C7 amended: with both pencils on 26 and the mode flag false the
\* evaluation classifies DEADLOCK and both successor positions are ILLEGAL;
\* with the mode flag true it takes YES, the chosen pencil goes to 61 and the
\* other pencil stays on 26.
C7_DeadlockModeOff ==
  \A p \in Pencils :
    (pc = "eval" /\ Has(p) /\ BothOn26) =>
      IF Mode
        THEN /\ NextPosOf(p, p) = 61
             /\ NextPosOf(p, 1 - p) = 26
             /\ Last(p) => pathTaken = PATH_YES
        ELSE Deadlocked(p)

C7_Witness ==
  /\ pc = "eval" /\ BothOn26 /\ ~Mode /\ Has(0) /\ Last(0)
  /\ Deadlocked(0) /\ pathTaken = PATH_NONE

\* What the other pencil's own rule answers when the chosen pencil is on 26
\* and the mode flag is false: NO for these boxes of the other pencil (box 9
\* only when the chosen pencil did not move last).
OtherAnswersNo(other, chosenMoved) ==
  \/ other \in {2, 5, 7, 15, 35, 40, 50}
  \/ other = 9 /\ ~chosenMoved

\* C8: mode flag false, chosen pencil on 26, other pencil not on 26: the
\* chosen pencil goes to 61 exactly when the other pencil's own rule on the
\* same state classifies NO, and to 55 otherwise (YES or CHOICE, so for the
\* other pencil on 55, 60, 61 or 65).
C8_Box26AsksOther ==
  \A p \in Pencils :
    (pc = "eval" /\ Has(p) /\ ~Mode /\ PosOf(p) = 26 /\ PosOf(1 - p) # 26) =>
      LET own == DetermineNextStates(1 - p,
                   SetCurrentState(NewTransition, subject.current))
          no == own.pathTaken = PATH_NO
      IN  /\ NextPosOf(p, p) = IF no THEN 61 ELSE 55
          /\ no <=> OtherAnswersNo(PosOf(1 - p), MovementP(subject.current, p))
          /\ PosOf(1 - p) \in {55, 60, 61, 65} => NextPosOf(p, p) = 55
          /\ Has(1 - p) /\ Last(p) =>
               pathTaken = IF no THEN PATH_YES ELSE PATH_NO

C8_Witness ==
  /\ pc = "eval" /\ ~Mode /\ Has(0)
  /\ PosOf(0) = 26 /\ PosOf(1) = 55 /\ NextPosOf(0, 0) = 55

C8_WitnessNo ==
  /\ pc = "eval" /\ ~Mode /\ Has(1)
  /\ PosOf(1) = 26 /\ PosOf(0) = 9 /\ ~MovementP(subject.current, 1)
  /\ NextPosOf(1, 1) = 61

\* The literal jump table of box 61.
JumpTarget(pos) ==
  CASE pos = 1 -> 2 [] pos = 2 -> 7 [] pos = 5 -> 25 [] pos = 7 -> 26
    [] pos = 9 -> 2 [] pos = 15 -> 5 [] pos = 25 -> 7 [] pos = 26 -> 61
    [] pos = 35 -> 40 [] pos = 40 -> 65 [] pos = 50 -> GOAL_MAZEPOINT
    [] pos = 55 -> 15 [] pos = 60 -> 25 [] pos = 61 -> 1 [] pos = 65 -> 75
    [] pos = 75 -> 1

\* C10: chosen pencil on 61: it moves to 1; with the mode flag true the other
\* pencil stays where it is; with the mode flag false the other pencil is
\* moved to the jump target of its box, both movement flags are true and the
\* mode flag stays false, also when the other pencil jumps from 60 or 65.
C10_Box61 ==
  \A p \in Pencils :
    (pc = "eval" /\ Has(p) /\ PosOf(p) = 61) =>
      LET n == NextState(subject, p)
      IN  /\ Pencil(n, p) = 1
          /\ Mode => Pencil(n, 1 - p) = PosOf(1 - p)
          /\ ~Mode =>
               /\ Pencil(n, 1 - p) = JumpTarget(PosOf(1 - p))
               /\ MovementP(n, 0) /\ MovementP(n, 1)
               /\ ~Rule60P(n)

C10_Witness ==
  /\ pc = "eval" /\ Has(0) /\ ~Mode
  /\ PosOf(0) = 61 /\ PosOf(1) = 60
  /\ NextPosOf(0, 0) = 1 /\ NextPosOf(0, 1) = 25
  /\ ~Rule60P(NextState(subject, 0))

\* The states a call for pencil p has stored: the next state, and the
\* alternate next state where the call marked it valid.
Successors(p) ==
  {NextState(subject, p)} \cup
    (IF AltNextValidP(subject, p) THEN {AltNextState(subject, p)} ELSE {})

\* C11: in every transition stored for a pencil (the next state, and the
\* alternate next state where valid) the rule-60 flag of the successor is
\* true when the acting pencil stands on 60, false when it stands on 65, and
\* the flag of the source state in every other case; so the flag set by a
\* transition through 60 stays set along a path until a transition through
\* 65 and is clear right after that one.
C11_ModeFlag ==
  \A p \in Pencils :
    (pc = "eval" /\ Has(p)) =>
      \A n \in Successors(p) :
        Rule60P(n) = (CASE PosOf(p) = 60 -> TRUE
                        [] PosOf(p) = 65 -> FALSE
                        [] OTHER -> Mode)

C11_Witness ==
  /\ pc = "eval" /\ Has(0) /\ Has(1)
  /\ PosOf(0) = 65 /\ PosOf(1) = 55 /\ Mode
  /\ ~Rule60P(NextState(subject, 0))
  /\ Rule60P(NextState(subject, 1)) /\ Rule60P(AltNextState(subject, 1))

\* The deadly embrace of box 26: both pencils on 26 and the rule of box 60
\* not active.
Embrace == BothOn26 /\ ~Mode

\* Box 61 moving both pencils: the chosen pencil on 61 and the rule of box
\* 60 not active.
CrossMove(p) == PosOf(p) = 61 /\ ~Mode

\* C12 as stated: in every successor the acting pencil's movement flag is
\* true and the other pencil's is false, whatever the flags of the source
\* state, except for box 61 with the mode flag false, where both are true.
C12_MovementFlags ==
  \A p \in Pencils :
    (pc = "eval" /\ Has(p)) =>
      \A n \in Successors(p) :
        /\ MovementP(n, p)
        /\ MovementP(n, 1 - p) <=> CrossMove(p)

\* C12 amended: as stated, with a second exception: the successor of the
\* deadly embrace (both pencils on 26, mode flag false) has both movement
\* flags false.
C12_MovementFlagsButEmbrace ==
  \A p \in Pencils :
    (pc = "eval" /\ Has(p)) =>
      \A n \in Successors(p) :
        IF Embrace
          THEN ~MovementP(n, p) /\ ~MovementP(n, 1 - p)
          ELSE /\ MovementP(n, p)
               /\ MovementP(n, 1 - p) <=> CrossMove(p)

C12_Witness ==
  /\ pc = "eval" /\ Has(1) /\ Embrace
  /\ MovementP(subject.current, 0) /\ MovementP(subject.current, 1)
  /\ ~MovementP(NextState(subject, 1), 0)
  /\ ~MovementP(NextState(subject, 1), 1)

\* C13 as stated: the other pencil stands in every successor where it stood
\* in the source state, except when the chosen pencil is on 61 with the mode
\* flag false.
C13_OtherStays ==
  \A p \in Pencils :
    (pc = "eval" /\ Has(p) /\ ~CrossMove(p)) =>
      \A n \in Successors(p) : Pencil(n, 1 - p) = PosOf(1 - p)

\* C13 amended: as stated, with a second exception: in the deadly embrace
\* (both pencils on 26, mode flag false) the other pencil is put on ILLEGAL
\* along with the chosen one.
C13_OtherStaysButEmbrace ==
  \A p \in Pencils :
    (pc = "eval" /\ Has(p) /\ ~CrossMove(p)) =>
      \A n \in Successors(p) :
        Pencil(n, 1 - p) = IF Embrace THEN ILLEGAL_MAZEPOINT ELSE PosOf(1 - p)

C13_Witness ==
  /\ pc = "eval" /\ Has(0) /\ Has(1)
  /\ PosOf(0) = 61 /\ PosOf(1) = 55 /\ Mode
  /\ Pencil(NextState(subject, 0), 1) = 55
  /\ Pencil(NextState(subject, 1), 0) = 61
  /\ Pencil(AltNextState(subject, 1), 0) = 61

\* This step is a call of DetermineNextStates for pencil p.
CalledFor(p) == pc = "eval" /\ evaluated' = Append(evaluated, p)

\* C23: a call of DetermineNextStates for pencil p leaves the record's
\* current state, its depth, and the next state, the alternate next state
\* and the valid flag of the other pencil as they were, whether the other
\* pencil's have been written before or not.
C23_WritesOwnFields ==
  [][\A p \in Pencils :
       CalledFor(p) =>
         /\ subject'.current = subject.current
         /\ subject'.visited = subject.visited
         /\ NextState(subject', 1 - p) = NextState(subject, 1 - p)
         /\ AltNextState(subject', 1 - p) = AltNextState(subject, 1 - p)
         /\ subject'.altNextValid[2 - p] = subject.altNextValid[2 - p]]_vars

\* Pencil 0 was evaluated on 26, with a nested call for pencil 1, after
\* pencil 1 on 55 had its alternate state written, which is still there.
C23_Witness ==
  /\ pc = "eval" /\ evaluated = <<1, 0>> /\ nesting = 1
  /\ PosOf(0) = 26 /\ PosOf(1) = 55
  /\ NextPosOf(0, 0) = 55
  /\ AltNextValidP(subject, 1) /\ ~AltNextValidP(subject, 0)
  /\ Pencil(AltNextState(subject, 1), 1) = 7

\* C24: a call makes a nested call exactly when the chosen pencil is on 26,
\* the mode flag is false and the other pencil is not on 26, and the nested
\* call makes none: the calls never nest deeper than one level.
C24_OneLevel ==
  \A p \in Pencils :
    (pc = "eval" /\ Has(p) /\ Last(p)) =>
      /\ nesting \in {0, 1}
      /\ nesting = 1 <=> (PosOf(p) = 26 /\ ~Mode /\ PosOf(1 - p) # 26)

C24_Witness ==
  /\ pc = "eval" /\ evaluated = <<1>> /\ nesting = 1
  /\ PosOf(1) = 26 /\ PosOf(0) = 55 /\ ~Mode

\* ------------------------------------------------------------------------
\* Properties of the built table (SpecBuild)
\* ------------------------------------------------------------------------

\* Record i of the table has been written by the construction.
Populated(i) == pc \in {"build", "built"} /\ space[i].current # NewState

\* C9: after the construction, for every record and pencil t, the
\* alternate-valid flag of t is set exactly when t is on box 55 in the
\* record's state; then the next state has t on 15 and the alternate next
\* state is the next state with t on 7 instead (the same movement flags, the
\* same rule-60 flag, the same place of the other pencil).
C9_AlternateOnlyAt55 ==
  pc = "built" =>
    \A i \in 0..(TotalStates - 1) : \A t \in Pencils :
      LET rec == space[i]
      IN  /\ Populated(i)
          /\ AltNextValidP(rec, t) <=> Pencil(rec.current, t) = 55
          /\ AltNextValidP(rec, t) =>
               /\ Pencil(NextState(rec, t), t) = 15
               /\ Pencil(AltNextState(rec, t), t) = 7
               /\ AltNextState(rec, t) =
                    [NextState(rec, t) EXCEPT
                       !.pencil[t + 1] = AltNextState(rec, t).pencil[t + 1]]

C9_Witness ==
  /\ pc = "built"
  /\ \E i \in 0..(TotalStates - 1) :
       /\ Pencil(space[i].current, 0) = 1
       /\ Pencil(space[i].current, 1) = 55
       /\ AltNextValidP(space[i], 1) /\ ~AltNextValidP(space[i], 0)
       /\ Pencil(NextState(space[i], 1), 1) = 15
       /\ Pencil(AltNextState(space[i], 1), 1) = 7
       /\ Pencil(AltNextState(space[i], 1), 0) = 1
  /\ \E i \in 0..(TotalStates - 1) :
       /\ Pencil(space[i].current, 0) = 55
       /\ Pencil(space[i].current, 1) = 55
       /\ AltNextValidP(space[i], 0) /\ AltNextValidP(space[i], 1)

\* The state an id stands for.
StateOfId(id) ==
  LET f == FieldsOf(id)
      c1 == SetPencil(SetPencil(NewState, 0, f.p0), 1, f.p1)
      c2 == SetRule60(c1, f.r = 1)
  IN  SetMovement(SetMovement(c2, 0, f.m0 = 1), 1, f.m1 = 1)

\* What one call for pencil p makes of a fresh transition with the state of
\* an id as its current state.
CallFor(id, p) ==
  DetermineNextStates(p, SetCurrentState(NewTransition, StateOfId(id))).trs

\* The record claim C14 expects at an id: the state the id stands for, and
\* for each pencil what a call on that very state stores.
RecordFor(id) ==
  [current |-> StateOfId(id),
   next |-> <<NextState(CallFor(id, 0), 0), NextState(CallFor(id, 1), 1)>>,
   altNext |-> <<AltNextState(CallFor(id, 0), 0),
                 AltNextState(CallFor(id, 1), 1)>>,
   visited |-> 0,
   altNextValid |-> <<CallFor(id, 0).altNextValid[1],
                      CallFor(id, 1).altNextValid[2]>>]

\* C14: after the construction the record at every id holds the state the
\* id encodes and, for pencil 0 and for pencil 1, the successors of a call on
\* that same state (the call for pencil 1 does not see the move of pencil
\* 0); and the construction writes every record once: a step writes only
\* records that were still as allocated, and writes them as they stay.
C14_RecordsIndependent ==
  /\ [](pc = "built" =>
          \A id \in 0..(TotalStates - 1) : space[id] = RecordFor(id))
  /\ [][\A id \in 0..(TotalStates - 1) :
          space'[id] # space[id] =>
            space[id] = NewTransition /\ space'[id] = RecordFor(id)]_vars

C14_Witness ==
  /\ pc = "built"
  /\ \E id \in 0..(TotalStates - 1) :
       /\ Pencil(space[id].current, 0) = 1
       /\ Pencil(space[id].current, 1) = 1
       /\ ComputeIndex(space[id].current) = id
       /\ Pencil(NextState(space[id], 0), 0) = 9
       /\ Pencil(NextState(space[id], 0), 1) = 1
       /\ Pencil(NextState(space[id], 1), 1) = 9
       /\ Pencil(NextState(space[id], 1), 0) = 1

\* ------------------------------------------------------------------------
\* Properties of the traversal (SpecRun)
\* ------------------------------------------------------------------------

\* The traversal has run to completion.
TraversalOver == pc \in {"done", "aborted"}

\* C1 as stated: the traversal from the start state never records a goal
\* event.
C1_NoGoalEvent == pc \in {"run", "done", "aborted"} => goalLog = <<>>

\* C1 amended: the traversal from the start state, run to completion, has
\* recorded at least one goal event: it expanded a state with an inspected
\* successor that has a pencil on GOAL.
C1_GoalReached == TraversalOver => goalLog # <<>>

C1_Witness == pc = "done" /\ Len(goalLog) > 0 /\ illegalLog = <<>>

\* C15: the program never aborts, neither in the construction nor in the
\* traversal from the start state: DetermineNextStates is only called on
\* states with both pencils on maze points, GetYesPath knows every box it is
\* asked about, and every state RecTraverse is called for, ComputeIndex
\* having been applied to it, has both pencils on maze points.
C15_NoAbort ==
  /\ pc # "aborted"
  /\ Constructed.pc = "built"
  /\ (pc = "run" /\ stack # <<>>) =>
       LET c == BuiltSpace[TopOf(Now).index].current
       IN  /\ TopOf(Now).index \in 0..(TotalStates - 1)
           /\ ~IllegalP(c) /\ ~GoalP(c)
           /\ ~ComputeIndexAborts(c)
           /\ ComputeIndex(c) = TopOf(Now).index

C15_Witness ==
  /\ pc = "done"
  /\ Constructed.pc = "built"
  /\ Len(goalLog) > 1
  /\ \E i \in 0..(TotalStates - 1) :
       visited[i] > 1 /\ Pencil(BuiltSpace[i].current, 0) = 61

\* The indices RecTraverse could be called with from the record at index i:
\* the next states and the valid alternate next states of either pencil that
\* have both pencils on maze points.
SuccessorsOf(i) ==
  LET states ==
        UNION {{NextState(BuiltSpace[i], p)} \cup
                 (IF AltNextValidP(BuiltSpace[i], p)
                    THEN {AltNextState(BuiltSpace[i], p)} ELSE {}) :
               p \in Pencils}
  IN  {ComputeIndex(n) : n \in {m \in states : ~IllegalP(m) /\ ~GoalP(m)}}

\* One more step from the indices in 'frontier': the indices newly found,
\* and with them all those found so far.
NextLayer(frontier, seen) ==
  LET found == (UNION {SuccessorsOf(i) : i \in frontier}) \ seen
  IN  <<found, seen \cup found>>

RECURSIVE ReachableFrom(_, _)

\* The indices some sequence of such steps leads to from the indices in
\* 'frontier', 'seen' being those already found.
ReachableFrom(frontier, seen) ==
  IF frontier = {} THEN seen
  ELSE CHOOSE all \in {ReachableFrom(layer[1], layer[2]) :
                         layer \in {NextLayer(frontier, seen)}} : TRUE

\* The states reachable from the start state.
Reachable ==
  ReachableFrom({ComputeIndex(StartState)}, {ComputeIndex(StartState)})

\* C20: when the traversal has returned, every state with both pencils on
\* maze points that some sequence of moves leads to from the start state
\* (each move to a next state or a valid alternate next state of the table)
\* has been visited: its record carries a depth.
C20_ReachableVisited ==
  pc = "done" => \A i \in Reachable : visited[i] > 0

C20_Witness ==
  /\ pc = "done"
  /\ Cardinality(Reachable) > 1
  /\ \E i \in Reachable : \E j \in SuccessorsOf(i) :
       visited[j] > visited[i] /\ visited[i] > 1

\* C2 as stated: the traversal run to completion has recorded at least one
\* illegal event.
C2_SomeIllegalEvent == pc = "done" => illegalLog # <<>>

\* C2 amended: the traversal from the start state records no illegal event:
\* no state it expands has an inspected successor with a pencil on ILLEGAL.
C2_NoIllegalEvent == pc \in {"run", "done", "aborted"} => illegalLog = <<>>

C2_Witness == pc = "done" /\ illegalLog = <<>> /\ maxDepth > 1

\* C4: the traversal from the start state terminates: StartTraversal, taken
\* in one piece, ends with the outermost call of RecTraverse returned, every
\* call below it having been pruned or having run through its loop.
C4_Terminates == [][StartTraversal => pc' = "done" /\ stack' = <<>>]_vars

C4_Witness ==
  /\ pc = "done"
  /\ stack = <<>>
  /\ visited[ComputeIndex(StartState)] = 1
  /\ maxDepth > 1

\* The records that carry a depth.
Stamped == {i \in 0..(TotalStates - 1) : visited[i] > 0}

\* C18 as stated: the depth of a record is written at most once, by the
\* first visit: the traversal has called SetVisited once for every record
\* that carries a depth.
C18_WrittenOnce == pc \in {"run", "done"} => stamps = Cardinality(Stamped)

\* A step changes the depth of no record but that of the innermost call,
\* from 'was' to 'now'; or it is the traversal taken in one piece, from a
\* table in which no record carries a depth yet.
OnlyTopRestamped(Allowed(_, _)) ==
  \/ /\ stack # <<>>
     /\ visited' = [visited EXCEPT
                      ![TopOf(Now).index] = visited'[TopOf(Now).index]]
     /\ Allowed(visited[TopOf(Now).index], visited'[TopOf(Now).index])
  \/ \A i \in 0..(TotalStates - 1) : visited[i] = 0 /\ visited'[i] >= 0

FirstOrShallower(was, now) == was = 0 \/ (0 < now /\ now < was)

\* C18 amended: the first visit of a state writes the depth of its record,
\* and a later visit writes it again exactly when it comes at a smaller
\* depth (the shallowest visit wins): a step changes the depth of a record
\* only from zero or to a smaller depth, and a visit at a depth below the
\* recorded one writes its depth.
C18_ShallowestWins ==
  /\ [][visited' # visited => OnlyTopRestamped(FirstOrShallower)]_vars
  /\ [][(Enter /\ TopOf(Now).depth < visited[TopOf(Now).index]) =>
          /\ visited'[TopOf(Now).index] = TopOf(Now).depth
          /\ stamps' = stamps + 1]_vars

C18_Witness ==
  /\ pc = "done"
  /\ stamps > Cardinality(Stamped)
  /\ Cardinality(Stamped) > 1

NeverBackToZero(was, now) == now # 0 /\ (was # 0 => now < was)

\* C19: a call of RecTraverse for a record returns at once, changing nothing
\* and calling nothing, exactly when the depth of the record is nonzero and
\* at most the depth of the call; otherwise it writes the depth of the call
\* to the record.  So a depth once nonzero never returns to zero, and every
\* overwrite makes it smaller.
C19_PruneOrStamp ==
  /\ [][Enter =>
          LET top == TopOf(Now)
              v == visited[top.index]
          IN  IF v # 0 /\ v <= top.depth
                THEN /\ stack' = SubSeq(stack, 1, Len(stack) - 1)
                     /\ UNCHANGED <<visited, stackTrace, maxDepth, goalLog,
                                    illegalLog, stamps>>
                ELSE /\ visited' = [visited EXCEPT ![top.index] = top.depth]
                     /\ Len(stack') = Len(stack)
                     /\ stack'[Len(stack)].at = "next"]_vars
  /\ [][visited' # visited => OnlyTopRestamped(NeverBackToZero)]_vars

C19_Witness ==
  /\ pc = "run"
  /\ Len(stack) > 1
  /\ TopOf(Now).at = "entry"
  /\ visited[TopOf(Now).index] # 0
  /\ visited[TopOf(Now).index] <= TopOf(Now).depth

\* The index at place k of the order claim C17 names: the movement flag of
\* pencil 0, then that of pencil 1, each true before false, then the two
\* ordinals ascending, then the rule-60 flag true before false.
OrderId(k) ==
  LET j == k - 1
  IN  ((((1 - (j \div 1024)) * 2 + (1 - ((j \div 512) % 2))) * 16
         + ((j \div 32) % 16)) * 16
         + ((j \div 2) % 16)) * 2
         + (1 - (j % 2))

\* The index the k-th pass of EnumerateTransitions writes.
BuildOrderId(k) ==
  LET l == AdvanceBy(StartOfBuild.loop, k - 1)
  IN  ComputeIndex(IterationState(l.pencil0mv, l.pencil1mv, l.curP0, l.curP1,
                                  l.curR60))

IsStamped(i) == visited[i] > 0

\* C17: DumpTransitions looks at each of the 2048 indices once, in the order
\* in which EnumerateTransitions wrote them, writes out exactly the records
\* that carry a depth, and changes no record.
C17_DumpInOrder ==
  /\ [](pc = "dumped" =>
          /\ Len(dumped.inspected) = TotalStates
          /\ \A k \in 1..TotalStates :
               /\ dumped.inspected[k] = OrderId(k)
               /\ dumped.inspected[k] = BuildOrderId(k)
          /\ Cardinality({dumped.inspected[k] : k \in 1..TotalStates}) = 2048
          /\ dumped.output = SelectSeq(dumped.inspected, IsStamped))
  /\ [][(pc \in {"done", "dump"}) =>
          UNCHANGED <<visited, stack, stackTrace, maxDepth, stamps>>]_vars

C17_Witness ==
  /\ pc = "dumped"
  /\ dumped.inspected[1] = 1537
  /\ dumped.inspected[TotalStates] = 510
  /\ Len(dumped.output) > 1
  /\ Len(dumped.output) < TotalStates

\* The record rec is the record the constructor has built at index i in its
\* state, its next states, its alternate next states and their valid flags.
BuiltButVisited(rec, i) ==
  /\ rec.current = BuiltSpace[i].current
  /\ \A t \in Pencils :
       /\ NextState(rec, t) = NextState(BuiltSpace[i], t)
       /\ AltNextState(rec, t) = AltNextState(BuiltSpace[i], t)
       /\ AltNextValidP(rec, t) = AltNextValidP(BuiltSpace[i], t)
       /\ rec.altNextValid[t + 1] = BuiltSpace[i].altNextValid[t + 1]

\* C22: the traversal writes to the table through SetVisited only, and the
\* record a call of SetVisited leaves is the record the constructor built
\* but for the depth stored in it; a step that stores no depth writes no
\* record and changes no depth.
C22_OnlyStamps ==
  [][IF stamps' # stamps
       THEN /\ Len(written') = 1
            /\ written'[1].index \in 0..(TotalStates - 1)
            /\ BuiltButVisited(written'[1].record, written'[1].index)
            /\ written'[1].record.visited = visited'[written'[1].index]
            /\ visited'[written'[1].index] > 0
       ELSE UNCHANGED <<written, visited>>]_vars

C22_Witness ==
  /\ pc = "done"
  /\ stamps > TotalStates
  /\ Len(written) = 1
  /\ written[1].record.visited > 0
  /\ \E i \in 0..(TotalStates - 1) :
       visited[i] > 0 /\ AltNextValidP(BuiltSpace[i], 0)

\* C25 as stated: every goal event comes with the states of the current
\* path, as many as the depth of the call that reports it.
C25_TraceWithEveryGoal ==
  \A k \in 1..Len(goalLog) : Len(goalLog[k].traced) = goalLog[k].depth

\* What comes with a goal event e: at a depth of at most 37 the states of
\* the stack tracer from entry 0 to entry depth-1, the first of them the
\* start state and the last a state with a goal state next to it; at a
\* greater depth no state at all.
TracedUpTo37(e) ==
  IF e.depth <= 37
    THEN /\ Len(e.traced) = e.depth
         /\ e.traced[1] = StartState
         /\ \E t \in Pencils :
              LET rec == BuiltSpace[ComputeIndex(e.traced[e.depth])]
              IN  \/ GoalP(NextState(rec, t))
                  \/ AltNextValidP(rec, t) /\ GoalP(AltNextState(rec, t))
    ELSE e.traced = <<>>

\* C25 as the code has it: the goal event a step reports is reported at the
\* depth of the call that finds it, with the states the stack tracer then
\* holds if that depth is at most 37 and with none otherwise; and so it is
\* for all the goal events of a traversal that has returned.
C25_TraceUpTo37 ==
  /\ [][Len(goalLog') = Len(goalLog) + 1 =>
          LET e == goalLog'[Len(goalLog')]
          IN  /\ e.depth = stack[Len(stack)].depth
              /\ TracedUpTo37(e)
              /\ \A i \in 1..Len(e.traced) : e.traced[i] = stackTrace[i - 1]
              /\ \A k \in 1..Len(goalLog) : goalLog'[k] = goalLog[k]]_vars
  /\ [](pc = "done" => \A k \in 1..Len(goalLog) : TracedUpTo37(goalLog[k]))

C25_Witness ==
  /\ pc = "done"
  /\ \E k \in 1..Len(goalLog) :
       goalLog[k].depth = 37 /\ Len(goalLog[k].traced) = 37
  /\ \E k \in 1..Len(goalLog) :
       goalLog[k].depth = 39 /\ goalLog[k].traced = <<>>

\* C26: no call of RecTraverse that gets past its first test is at a depth
\* above TRACE_ENTRIES, and every such call puts the state of its record
\* into the entry of the stack tracer that belongs to its depth.
C26_WithinTrace ==
  /\ [](maxDepth <= TRACE_ENTRIES)
  /\ []((pc = "run" /\ stack # <<>> /\ stack[Len(stack)].at # "entry") =>
          stack[Len(stack)].depth <= TRACE_ENTRIES)
  /\ [][(Enter /\ stamps' # stamps) =>
          LET top == stack[Len(stack)]
          IN  /\ top.depth - 1 \in 0..(TRACE_ENTRIES - 1)
              /\ stackTrace' =
                    [stackTrace EXCEPT
                       ![top.depth - 1] = BuiltSpace[top.index].current]]_vars

\* The traversal has returned: its deepest call was at depth 272, whose
\* state is in entry 271, and no entry beyond that was ever written.
C26_Witness ==
  /\ pc = "done"
  /\ maxDepth = 272
  /\ stackTrace[271] # NewState
  /\ \A i \in 272..(TRACE_ENTRIES - 1) : stackTrace[i] = NewState

\* The number of calls of RecTraverse that are past their first test: all
\* of those on the stack but perhaps the innermost.
Expanding ==
  IF stack = <<>> THEN 0
  ELSE IF stack[Len(stack)].at = "entry" THEN Len(stack) - 1 ELSE Len(stack)

\* For every index, the indices RecTraverse may go on to from its record.
SuccessorTable == [i \in 0..(TotalStates - 1) |-> SuccessorsOf(i)]

\* C27: while calls of RecTraverse are past their first test down to depth
\* d, the entries 0..d-1 of the stack tracer are the states of the records
\* of these calls, outermost first: entry 0 is the start state, entry d-1
\* the state of the innermost of them, and every entry is a next state or a
\* valid alternate next state of the entry before it (the index identifies
\* the state: ComputeIndex is one-to-one).
C27_TraceIsPath ==
  (pc = "run" /\ Expanding > 0 /\ Expanding <= TRACE_ENTRIES) =>
    /\ stackTrace[0] = StartState
    /\ \A k \in 1..Expanding :
         /\ stack[k].depth = k
         /\ stackTrace[k - 1] = BuiltSpace[stack[k].index].current
         /\ k > 1 => stack[k].index \in SuccessorTable[stack[k - 1].index]

\* 34 calls deep, the innermost back from the call it made for its next
\* state, which returned at once: the entries 0..33 are the path.
C27_Witness ==
  /\ pc = "run"
  /\ Expanding = 34
  /\ Len(stack) = 34
  /\ stack[34].at = "alt"
  /\ stackTrace[0] = StartState
  /\ stackTrace[33] = BuiltSpace[stack[34].index].current
  /\ stack[34].index \in SuccessorTable[stack[33].index]

\* The indices RecTraverse calls itself with from the record at index i, if
\* it gets past its first test there: those of the next state of pencil 0,
\* its alternate next state if valid, then the same of pencil 1, up to the
\* first of them that is a goal state or illegal, at which the call returns.
FollowedFrom(i) ==
  LET rec == BuiltSpace[i]
      inOrder ==
        <<NextState(rec, 0)>> \o
        (IF AltNextValidP(rec, 0) THEN <<AltNextState(rec, 0)>> ELSE <<>>) \o
        <<NextState(rec, 1)>> \o
        (IF AltNextValidP(rec, 1) THEN <<AltNextState(rec, 1)>> ELSE <<>>)
      ends == {k \in 1..Len(inOrder) : IllegalP(inOrder[k]) \/ GoalP(inOrder[k])}
      last == IF ends = {} THEN Len(inOrder)
              ELSE (CHOOSE k \in ends : \A j \in ends : k <= j) - 1
  IN  {ComputeIndex(inOrder[k]) : k \in 1..last}

RECURSIVE ShortestFrom(_, _, _)

\* Breadth first: 'depths' gives every index found so far one more than the
\* length of the shortest sequence of such calls that leads to it (0: not
\* found), and 'frontier' holds the indices found last, which have depth d.
ShortestFrom(frontier, depths, d) ==
  IF frontier = {} THEN depths
  ELSE CHOOSE all \in
         {ShortestFrom(found,
                       [i \in 0..(TotalStates - 1) |->
                          IF i \in found THEN d + 1 ELSE depths[i]],
                       d + 1) :
            found \in {{j \in UNION {FollowedFrom(i) : i \in frontier} :
                          depths[j] = 0}}} : TRUE

\* One more than the length of the shortest path from the start state.
ShortestDepth ==
  ShortestFrom({ComputeIndex(StartState)},
               [i \in 0..(TotalStates - 1) |->
                  IF i = ComputeIndex(StartState) THEN 1 ELSE 0],
               1)

\* C28: when the traversal has returned, the depth in every record that
\* carries one is one more than the length of the shortest path to it from
\* the start state along the calls RecTraverse makes; the start state's is 1.
C28_ShortestDepths ==
  pc = "done" =>
    /\ visited[ComputeIndex(StartState)] = 1
    /\ \A i \in 0..(TotalStates - 1) :
         visited[i] > 0 => visited[i] = ShortestDepth[i]

\* The traversal has returned, and some record it once gave a greater depth
\* carries the depth of the shortest path: there were more calls of
\* SetVisited than there are records with a depth.
C28_Witness ==
  /\ pc = "done"
  /\ stamps > Cardinality({i \in 0..(TotalStates - 1) : visited[i] > 0})
  /\ \E i \in 0..(TotalStates - 1) : visited[i] = 37 /\ ShortestDepth[i] = 37
  /\ visited[ComputeIndex(StartState)] = 1

\* C29: the calls of RecTraverse that are past their first test are for
\* records all different, so there are at most TotalStates of them, one in
\* another; maxDepth is the greatest depth any call of SetVisited has stored
\* so far: zero before the first, then raised by every call that stores a
\* greater depth and changed by nothing else; and it is between 1 and
\* TotalStates when the traversal has returned.
C29_DistinctOnPath ==
  /\ [](pc = "run" =>
          /\ Cardinality({stack[k].index : k \in 1..Expanding}) = Expanding
          /\ Expanding <= TotalStates)
  /\ []((stamps = 0 => maxDepth = 0) /\ (stamps > 0 => maxDepth > 0))
  /\ [][IF stamps' = stamps + 1
          THEN /\ stack # <<>>
               /\ visited'[stack[Len(stack)].index] = stack[Len(stack)].depth
               /\ maxDepth' = IF stack[Len(stack)].depth > maxDepth
                                THEN stack[Len(stack)].depth ELSE maxDepth
          ELSE stamps' = stamps => maxDepth' = maxDepth]_vars
  /\ [](pc = "done" =>
          /\ maxDepth \in 1..TotalStates
          /\ \A i \in 0..(TotalStates - 1) : visited[i] <= maxDepth)

\* The traversal has returned: the greatest depth stored was 272, and no
\* record carries a depth that great any more.
C29_Witness ==
  /\ pc = "done"
  /\ maxDepth = 272
  /\ \A i \in 0..(TotalStates - 1) : visited[i] < 272
  /\ \E i \in 0..(TotalStates - 1) : visited[i] > 1

\* ------------------------------------------------------------------------
\* Properties of SpecVisit
\* ------------------------------------------------------------------------

\* The innermost call is about to inspect the next state of pencil 0 and
\* that state is illegal.
IllegalAtPencil0 ==
  /\ pc = "run"
  /\ stack # <<>>
  /\ stack[Len(stack)].at = "next"
  /\ stack[Len(stack)].pencil = 0
  /\ IllegalP(NextState(BuiltSpace[stack[Len(stack)].index], 0))

====
